---- MODULE Spec2Model ----
(***************************************************************************)
(* Model of the CMP preview webhook handler (POST), its two CMP client     *)
(* calls (acknowledgePreview, submitPreviewCompletion) and the module-wide *)
(* OAuth token cache (getAccessToken).                                     *)
(*                                                                         *)
(* Each request is one run of the async POST handler.  JavaScript runs a   *)
(* handler without interruption between two awaits, so one action is the   *)
(* code that runs from one network await to the next; promise-resolution   *)
(* hops that touch no shared state (returning from an async function to    *)
(* its awaiting caller, response.text() of an error response) are part of  *)
(* the step that precedes them.                                            *)
(***************************************************************************)
EXTENDS Integers, Sequences, FiniteSets, TLC

(***************************************************************************)
(* Bounds of the model.                                                    *)
(***************************************************************************)
\* number of webhook requests the runtime handles (concurrently)
NumReqs == 2
\* number of clock advances of TickMs milliseconds
MaxTicks == 2

\* granularity of the modelled clock, in milliseconds (Date.now() unit)
TickMs == 1000

Reqs == 1..NumReqs

(***************************************************************************)
(* JavaScript values, as far as the handler looks at them.                 *)
(***************************************************************************)
Undef == [t |-> "undefined"]
Null == [t |-> "null"]
Str(s) == [t |-> "string", v |-> s]
Num(n) == [t |-> "number", v |-> n]
Obj(f) == [t |-> "object", f |-> f]
Arr(e) == [t |-> "array", e |-> e]
\* the outcome of an expression that threw a TypeError
Thrown == [t |-> "throw"]

IsNullish(v) == v.t \in {"undefined", "null"}

\* JavaScript truthiness, the test behind `!x`
Truthy(v) ==
    CASE v.t \in {"undefined", "null"} -> FALSE
      [] v.t = "string" -> v.v # ""
      [] v.t = "number" -> v.v # 0
      [] OTHER -> TRUE

\* property read v[k] of a non-nullish value; index 0 is the key "0"
Get(v, k) ==
    CASE v.t = "object" -> IF k \in DOMAIN v.f THEN v.f[k] ELSE Undef
      [] v.t = "array" -> IF k = "0" /\ Len(v.e) >= 1 THEN v.e[1] ELSE Undef
      [] v.t = "string" -> IF k = "0" /\ v.v # "" THEN Str("char") ELSE Undef
      [] OTHER -> Undef

\* one link of a member chain: `.k` / `[k]` (opt = FALSE) or `?.k` (opt = TRUE)
Dot(k) == [opt |-> FALSE, key |-> k]
Opt(k) == [opt |-> TRUE, key |-> k]

\* a member chain applied to v: `?.` on a nullish value ends the whole chain
\* with undefined, a plain read of a nullish value throws a TypeError
RECURSIVE EvalChain(_, _)
EvalChain(v, steps) ==
    \* x is the value of v, taken once for the whole step
    CHOOSE res \in
        { IF steps = <<>> THEN x
          ELSE IF x.t = "throw" THEN Thrown
          ELSE IF IsNullish(x)
               THEN IF Head(steps).opt THEN Undef ELSE Thrown
               ELSE EvalChain(Get(x, Head(steps).key), Tail(steps)) : x \in {v} } : TRUE

(***************************************************************************)
(* Request bodies.  raw = "empty" is the empty string, "malformed" a text  *)
(* JSON.parse rejects, "json" a text JSON.parse turns into `value`.        *)
(***************************************************************************)
Content(upd, hash) ==
    Obj([updated_by |-> upd, fields_version |-> Obj([content_hash |-> hash])])

Item(id, ver, cb) == Obj([id |-> id, version_id |-> ver, content_body |-> cb])

Payload(pid, sc) ==
    Obj([data |-> Obj([preview_id |-> pid, assets |-> Obj([structured_contents |-> sc])])])

ValidPayload(c, v, p) ==
    Payload(Str(p), Arr(<<Item(Str(c), Str(v), Content(Str("alice"), Str("h1")))>>))

JsonBody(v) == [raw |-> "json", value |-> v]

\* the valid body of request r: every delivery names its own content item,
\* version and preview request
ValidBody(r) ==
    JsonBody(ValidPayload("c" \o ToString(r), "v" \o ToString(r), "p" \o ToString(r)))

ValidBodies == { ValidBody(r) : r \in Reqs }

\* parseable bodies in which a required field is missing or falsy
MissingFieldBodies ==
    { JsonBody(Obj(<<>>)),
      JsonBody(Num(5)),
      JsonBody(Obj([data |-> Null])),
      JsonBody(Obj([data |-> Obj([preview_id |-> Str("p1")])])),
      JsonBody(Obj([data |-> Obj([preview_id |-> Str("p1"), assets |-> Null])])),
      JsonBody(Payload(Str("p1"), Arr(<<>>))),
      JsonBody(Payload(Str("p1"), Arr(<<Null>>))),
      JsonBody(Payload(Str("p1"), Arr(<<Item(Undef, Str("v1"), Content(Str("alice"), Str("h1")))>>))),
      JsonBody(Payload(Str("p1"), Arr(<<Item(Str("c1"), Str(""), Content(Str("alice"), Str("h1")))>>))),
      JsonBody(Payload(Undef, Arr(<<Item(Str("c1"), Str("v1"), Content(Str("alice"), Str("h1")))>>))),
      JsonBody(Payload(Str("p1"), Arr(<<Item(Str("c1"), Str("v1"), Undef)>>))),
      JsonBody(Payload(Str("p1"), Arr(<<Item(Str("c1"), Str("v1"), Content(Null, Str("h1")))>>))),
      JsonBody(Payload(Str("p1"), Arr(<<Item(Str("c1"), Str("v1"), Content(Str("alice"), Str("")))>>))),
      JsonBody(Payload(Str("p1"), Arr(<<Item(Str("c1"), Str("v1"),
                   Obj([updated_by |-> Str("alice")]))>>))) }

\* parseable bodies whose `assets` has no `structured_contents`
NoStructuredContentsBodies ==
    { JsonBody(Obj([data |-> Obj([preview_id |-> Str("p1"), assets |-> Obj(<<>>)])])),
      JsonBody(Payload(Str("p1"), Null)) }

\* the JSON text `null`
NullBody == JsonBody(Null)

\* a body whose read fails: `await request.text()` rejects
UnreadableBody == [raw |-> "unreadable"]

InvalidBodies ==
    { [raw |-> "empty"], [raw |-> "malformed"], NullBody, UnreadableBody }
      \cup MissingFieldBodies \cup NoStructuredContentsBodies

\* the bodies request r can carry
Bodies(r) == InvalidBodies \cup {ValidBody(r)}

\* ParseData with a body that is no JSON kept as text instead of rejected
ParseDataAsText(b) ==
    IF b.raw = "malformed" THEN Undef ELSE EvalChain(b.value, <<Dot("data")>>)

\* JSON.parse(rawBody).data; Thrown when JSON.parse throws a SyntaxError or
\* `.data` is read from null
ParseData(b) ==
    IF b.raw = "malformed" THEN Thrown ELSE EvalChain(b.value, <<Dot("data")>>)

\* DecodeBody without the test for an empty body: JSON.parse("") throws
DecodeBodyParseEmpty(b) == IF b.raw = "empty" THEN Thrown ELSE ParseData(b)

\* `let data = null; if (rawBody && rawBody.length > 0) { data = JSON.parse(rawBody).data }`
DecodeBody(b) == IF b.raw = "empty" THEN Null ELSE ParseData(b)

\* data?.assets?.structured_contents[0]
FirstContent == <<Opt("assets"), Opt("structured_contents"), Dot("0")>>

\* the five extractions of POST
ExtractFields(data) ==
    [ contentId   |-> EvalChain(data, FirstContent \o <<Opt("id")>>),
      versionId   |-> EvalChain(data, FirstContent \o <<Opt("version_id")>>),
      previewId   |-> EvalChain(data, <<Opt("preview_id")>>),
      updatedBy   |-> EvalChain(data, FirstContent \o <<Opt("content_body"), Opt("updated_by")>>),
      contentHash |-> EvalChain(data, FirstContent
                          \o <<Opt("content_body"), Opt("fields_version"), Opt("content_hash")>>) ]

FieldNames == {"contentId", "versionId", "previewId", "updatedBy", "contentHash"}

\* one of the five extractions threw
ExtractThrew(f) == \E n \in FieldNames : f[n].t = "throw"

\* !contentId || !versionId || !previewId || !updatedBy || !contentHash
MissingRequired(f) == \E n \in FieldNames : ~Truthy(f[n])

NoFields == [n \in FieldNames |-> Undef]

(***************************************************************************)
(* The token cache and the authorization server's answers.                 *)
(***************************************************************************)
\* `let tokenCache: TokenCache | null = null`
NoCache == [t |-> "null"]

\* the 5-minute buffer of getAccessToken, in seconds
ExpiryBufferSec == 300
\* seconds to milliseconds
MsPerSec == 1000

Tokens == {"tokA", "tokB"}
ExpiresInValues == {-1, 0, 300, 301}

\* what `fetch(tokenUrl)` and `response.json()` can give: fetch rejects, a
\* non-2xx status, a 2xx body that is no JSON, a 2xx JSON object
TokenResponses ==
    { [kind |-> "network_error"], [kind |-> "http_error"], [kind |-> "bad_json"] }
      \cup { [kind |-> "ok", data |-> Obj([access_token |-> a, expires_in |-> e])] :
               a \in {Undef} \cup {Str(k) : k \in Tokens},
               e \in {Undef} \cup {Num(n) : n \in ExpiresInValues} }

\* what the acknowledge and complete fetches can give
CmpResponses == {"ok", "http_error", "network_error"}

\* CacheIsValid with the comparison turned around
CacheIsValidInverted(cache, t) == cache.t # "null" /\ t >= cache.expiresAt

\* `tokenCache && Date.now() < tokenCache.expiresAt`
CacheIsValid(cache, t) == cache.t # "null" /\ t < cache.expiresAt

\* `!data.access_token || !data.expires_in`
InvalidTokenData(data) ==
    ~Truthy(Get(data, "access_token")) \/ ~Truthy(Get(data, "expires_in"))

\* `(data.expires_in - 300) * 1000`
ExpiresInMs(data) == (Get(data, "expires_in").v - ExpiryBufferSec) * MsPerSec

\* NewCacheEntry without the 300-second buffer
NewCacheEntryNoBuffer(data, t) ==
    [t |-> "object", accessToken |-> Get(data, "access_token").v,
     expiresAt |-> t + Get(data, "expires_in").v * MsPerSec]

\* `{ accessToken: data.access_token, expiresAt: Date.now() + expiresInMs }`
NewCacheEntry(data, t) ==
    [t |-> "object", accessToken |-> Get(data, "access_token").v,
     expiresAt |-> t + ExpiresInMs(data)]

\* the error getAccessToken throws on a token response, "" when it throws none
TokenError(resp) ==
    CASE resp.kind = "network_error" -> "fetch failed"
      [] resp.kind = "http_error" -> "Failed to obtain access token"
      [] resp.kind = "bad_json" -> "Unexpected token in JSON"
      [] resp.kind = "ok" ->
            IF InvalidTokenData(resp.data)
            THEN "Invalid token response: missing access_token or expires_in"
            ELSE ""

\* how the trace names the answer to a token request: the failure of the
\* fetch, or what the 2xx JSON payload holds
TokenResult(resp) ==
    IF resp.kind # "ok" THEN resp.kind
    ELSE IF Get(resp.data, "access_token").t = "undefined" THEN "no_access_token"
    ELSE IF Get(resp.data, "expires_in").t = "undefined" THEN "no_expires_in"
    ELSE IF Get(resp.data, "expires_in").v = 0 THEN "expires_in_zero"
    ELSE "ok"

(***************************************************************************)
(* The preview URLs and the two CMP calls.                                 *)
(***************************************************************************)
PreviewTypes == {"default", "mobile", "desktop", "tablet", "signage"}

\* `${CMP_PREVIEW_URL}/preview/${type}/${contentId}` as its path segments
generatePreviewUrls(contentId) ==
    [type \in PreviewTypes |-> <<"CMP_PREVIEW_URL", "preview", type, contentId.v>>]

\* the acknowledge POST: url segments, bearer token, JSON body
AcknowledgeCall(f, token) ==
    [kind |-> "ack", contentId |-> f.contentId.v, versionId |-> f.versionId.v,
     previewId |-> f.previewId.v, token |-> token,
     acknowledged_by |-> f.updatedBy.v, content_hash |-> f.contentHash.v]

\* the complete POST: url segments, bearer token, JSON body
CompletionCall(f, kp, token) ==
    [kind |-> "complete", contentId |-> f.contentId.v, versionId |-> f.versionId.v,
     previewId |-> f.previewId.v, token |-> token, keyed_previews |-> kp]

\* the POST to the token endpoint
TokenCall == [kind |-> "token"]

\* entry into getAccessToken
GetTokenEntry == [kind |-> "getAccessToken"]

\* the answer the handler saw to its last outbound call
Answer(to, result) == [kind |-> "answer", to |-> to, result |-> result]

(***************************************************************************)
(* The handler's responses.                                                *)
(***************************************************************************)
ErrorResponse(status, error, details) ==
    [kind |-> "response", status |-> status, error |-> error, details |-> details]

InvalidJsonResponse == ErrorResponse(400, "Invalid JSON payload", "")

MissingFieldsResponse ==
    ErrorResponse(400,
        "Missing required fields: contentId, versionId, previewId, updatedBy, or contentHash", "")

AcknowledgeFailedResponse(details) ==
    ErrorResponse(500, "Failed to acknowledge preview", details)

CompletionFailedResponse(details) ==
    ErrorResponse(500, "Failed to submit preview completion", details)

ProcessFailedResponse(details) == ErrorResponse(500, "Failed to process webhook", details)

SuccessResponse(f, kp) ==
    [kind |-> "response", status |-> 200, error |-> "",
     message |-> "Webhook received, preview acknowledged and completed successfully",
     acknowledged |-> TRUE, completed |-> TRUE,
     contentId |-> f.contentId.v, versionId |-> f.versionId.v, previewId |-> f.previewId.v,
     keyedPreviews |-> kp]

\* FailureResponse that answers every failure as an acknowledge failure
FailureResponseAckOnly(ph, details) == AcknowledgeFailedResponse(details)

\* the catch block of POST that a failure of the call in progress reaches
FailureResponse(ph, details) ==
    IF ph = "ack" THEN AcknowledgeFailedResponse(details)
    ELSE CompletionFailedResponse(details)

\* the call a CMP step sends once it has a token
CmpCall(ph, f, kp, token) ==
    IF ph = "ack" THEN AcknowledgeCall(f, token) ELSE CompletionCall(f, kp, token)

\* where the handler waits after sending that call
CmpWait(ph) == IF ph = "ack" THEN "AckFetch" ELSE "CplFetch"

(***************************************************************************)
(* State.                                                                  *)
(*   tokenCache  the module-level cache entry, NoCache while null          *)
(*   now         Date.now()                                                *)
(*   pc          where each request's handler is suspended                 *)
(*   phase       the CMP step in progress: "none", "ack" or "complete"     *)
(*   body        the request's raw body                                    *)
(*   fields      contentId, versionId, previewId, updatedBy, contentHash   *)
(*   keyed       keyedPreviews, <<>> before generatePreviewUrls ran        *)
(*   trace       per request: getAccessToken entries, outbound calls, the  *)
(*               answers seen and the responses returned, in order         *)
(*   lastFetch   the last token response getAccessToken accepted, with the *)
(*               request that received it, the clock at that moment and    *)
(*               whether the entry it replaced was still live              *)
(***************************************************************************)
VARIABLES tokenCache, now, pc, phase, body, fields, keyed, trace, lastFetch

vars == <<tokenCache, now, pc, phase, body, fields, keyed, trace, lastFetch>>

NoBody == [raw |-> "none"]
NoFetch == [req |-> 0]

Init ==
    /\ tokenCache = NoCache
    /\ now = 0
    /\ pc = [r \in Reqs |-> "Idle"]
    /\ phase = [r \in Reqs |-> "none"]
    /\ body = [r \in Reqs |-> NoBody]
    /\ fields = [r \in Reqs |-> NoFields]
    /\ keyed = [r \in Reqs |-> <<>>]
    /\ trace = [r \in Reqs |-> <<>>]
    /\ lastFetch = NoFetch

\* the positions and the number of the events of kind k in a trace
Kinds(tr, k) == {i \in DOMAIN tr : tr[i].kind = k}

Count(tr, k) == Cardinality(Kinds(tr, k))

\* the handler returns `resp`, after seeing `seen` (answers of the step)
Respond(r, seen, resp) ==
    /\ pc' = [pc EXCEPT ![r] = "Responded"]
    /\ trace' = [trace EXCEPT ![r] = @ \o seen \o <<resp>>]

\* StartCmpStep whose getAccessToken ignores the cache and always fetches
StartCmpStepAlwaysFetch(r, ph, f, kp, seen) ==
    /\ phase' = [phase EXCEPT ![r] = ph]
    /\ pc' = [pc EXCEPT ![r] = "TokenFetch"]
    /\ trace' = [trace EXCEPT ![r] = @ \o seen \o <<GetTokenEntry, TokenCall>>]

\* acknowledgePreview / submitPreviewCompletion up to their first network
\* await: getAccessToken returns the cached token and the CMP call is sent,
\* or getAccessToken posts to the token endpoint
StartCmpStep(r, ph, f, kp, seen) ==
    /\ phase' = [phase EXCEPT ![r] = ph]
    /\ IF CacheIsValid(tokenCache, now)
       THEN /\ pc' = [pc EXCEPT ![r] = CmpWait(ph)]
            /\ trace' = [trace EXCEPT ![r] =
                   @ \o seen \o <<GetTokenEntry, CmpCall(ph, f, kp, tokenCache.accessToken)>>]
       ELSE /\ pc' = [pc EXCEPT ![r] = "TokenFetch"]
            /\ trace' = [trace EXCEPT ![r] = @ \o seen \o <<GetTokenEntry, TokenCall>>]

\* the runtime invokes POST with a request; POST awaits request.text()
Receive(r, b) ==
    /\ pc[r] = "Idle"
    /\ pc' = [pc EXCEPT ![r] = "Received"]
    /\ body' = [body EXCEPT ![r] = b]
    /\ UNCHANGED <<tokenCache, now, phase, fields, keyed, trace, lastFetch>>

\* HandleBody without the top-level try/catch: an exception outside the
\* JSON-parse handler rejects POST's promise and no response is produced
HandleBodyNoTopCatch(r) ==
    /\ pc[r] = "Received"
    /\ LET data == DecodeBody(body[r])
           f == ExtractFields(data)
       IN  IF body[r] = UnreadableBody
           THEN /\ pc' = [pc EXCEPT ![r] = "Rejected"]
                /\ UNCHANGED <<phase, fields, trace>>
           ELSE IF data.t = "throw"
           THEN Respond(r, <<>>, InvalidJsonResponse) /\ UNCHANGED <<phase, fields>>
           ELSE IF ExtractThrew(f)
           THEN /\ pc' = [pc EXCEPT ![r] = "Rejected"]
                /\ UNCHANGED <<phase, fields, trace>>
           ELSE IF MissingRequired(f)
           THEN Respond(r, <<>>, MissingFieldsResponse) /\ UNCHANGED <<phase, fields>>
           ELSE /\ fields' = [fields EXCEPT ![r] = f]
                /\ StartCmpStep(r, "ack", f, <<>>, <<>>)
    /\ UNCHANGED <<tokenCache, now, body, keyed, lastFetch>>

\* HandleBody with the extracted fields kept in one module-level variable
\* that every request in progress reads
HandleBodySharedFields(r) ==
    /\ pc[r] = "Received"
    /\ LET data == DecodeBody(body[r])
           f == ExtractFields(data)
       IN  IF body[r] = UnreadableBody
           THEN /\ Respond(r, <<>>, ProcessFailedResponse("body unreadable"))
                /\ UNCHANGED <<phase, fields>>
           ELSE IF data.t = "throw"
           THEN Respond(r, <<>>, InvalidJsonResponse) /\ UNCHANGED <<phase, fields>>
           ELSE IF ExtractThrew(f)
           THEN /\ Respond(r, <<>>, ProcessFailedResponse("TypeError"))
                /\ UNCHANGED <<phase, fields>>
           ELSE IF MissingRequired(f)
           THEN Respond(r, <<>>, MissingFieldsResponse) /\ UNCHANGED <<phase, fields>>
           ELSE /\ fields' = [o \in Reqs |-> f]
                /\ StartCmpStep(r, "ack", f, <<>>, <<>>)
    /\ UNCHANGED <<tokenCache, now, body, keyed, lastFetch>>

\* POST from the body text to its first network await: decode, extract,
\* validate, then acknowledgePreview
HandleBody(r) ==
    /\ pc[r] = "Received"
    /\ LET data == DecodeBody(body[r])
           f == ExtractFields(data)
       IN  IF body[r] = UnreadableBody
           THEN /\ Respond(r, <<>>, ProcessFailedResponse("body unreadable"))
                /\ UNCHANGED <<phase, fields>>
           ELSE IF data.t = "throw"
           THEN Respond(r, <<>>, InvalidJsonResponse) /\ UNCHANGED <<phase, fields>>
           ELSE IF ExtractThrew(f)
           THEN /\ Respond(r, <<>>, ProcessFailedResponse("TypeError"))
                /\ UNCHANGED <<phase, fields>>
           ELSE IF MissingRequired(f)
           THEN Respond(r, <<>>, MissingFieldsResponse) /\ UNCHANGED <<phase, fields>>
           ELSE /\ fields' = [fields EXCEPT ![r] = f]
                /\ StartCmpStep(r, "ack", f, <<>>, <<>>)
    /\ UNCHANGED <<tokenCache, now, body, keyed, lastFetch>>

\* TokenReturn with a guarded write: an entry that is still live is kept
TokenReturnKeepLive(r, resp) ==
    /\ pc[r] = "TokenFetch"
    /\ LET err == TokenError(resp)
           seen == <<Answer("token", TokenResult(resp))>>
       IN  IF err # ""
           THEN /\ Respond(r, seen, FailureResponse(phase[r], err))
                /\ UNCHANGED <<tokenCache, lastFetch>>
           ELSE /\ tokenCache' = IF CacheIsValid(tokenCache, now) THEN tokenCache
                                 ELSE NewCacheEntry(resp.data, now)
                /\ lastFetch' = [req |-> r, data |-> resp.data, at |-> now,
                                 overLive |-> tokenCache.t # "null" /\ now < tokenCache.expiresAt]
                /\ pc' = [pc EXCEPT ![r] = CmpWait(phase[r])]
                /\ trace' = [trace EXCEPT ![r] = @ \o seen \o
                       <<CmpCall(phase[r], fields[r], keyed[r],
                                 Get(resp.data, "access_token").v)>>]
    /\ UNCHANGED <<now, phase, body, fields, keyed>>

\* TokenReturn whose getAccessToken swallows the failure and returns no
\* token: the CMP call goes out with an undefined bearer token
TokenReturnSwallowError(r, resp) ==
    /\ pc[r] = "TokenFetch"
    /\ LET err == TokenError(resp)
           seen == <<Answer("token", TokenResult(resp))>>
       IN  /\ IF err # ""
              THEN UNCHANGED <<tokenCache, lastFetch>>
              ELSE /\ tokenCache' = NewCacheEntry(resp.data, now)
                   /\ lastFetch' = [req |-> r, data |-> resp.data, at |-> now,
                                    overLive |-> tokenCache.t # "null" /\ now < tokenCache.expiresAt]
           /\ pc' = [pc EXCEPT ![r] = CmpWait(phase[r])]
           /\ trace' = [trace EXCEPT ![r] = @ \o seen \o
                  <<CmpCall(phase[r], fields[r], keyed[r],
                            IF err # "" THEN "undefined"
                            ELSE Get(resp.data, "access_token").v)>>]
    /\ UNCHANGED <<now, phase, body, fields, keyed>>

\* TokenReturn whose failure is never reported: the handler stays suspended
TokenReturnHang(r, resp) ==
    /\ pc[r] = "TokenFetch"
    /\ LET err == TokenError(resp)
           seen == <<Answer("token", TokenResult(resp))>>
       IN  IF err # ""
           THEN /\ pc' = [pc EXCEPT ![r] = "Hung"]
                /\ trace' = [trace EXCEPT ![r] = @ \o seen]
                /\ UNCHANGED <<tokenCache, lastFetch>>
           ELSE /\ tokenCache' = NewCacheEntry(resp.data, now)
                /\ lastFetch' = [req |-> r, data |-> resp.data, at |-> now,
                                 overLive |-> tokenCache.t # "null" /\ now < tokenCache.expiresAt]
                /\ pc' = [pc EXCEPT ![r] = CmpWait(phase[r])]
                /\ trace' = [trace EXCEPT ![r] = @ \o seen \o
                       <<CmpCall(phase[r], fields[r], keyed[r],
                                 Get(resp.data, "access_token").v)>>]
    /\ UNCHANGED <<now, phase, body, fields, keyed>>

\* TokenReturn that drops the cache entry when the token request fails
TokenReturnClearOnFailure(r, resp) ==
    /\ pc[r] = "TokenFetch"
    /\ LET err == TokenError(resp)
           seen == <<Answer("token", TokenResult(resp))>>
       IN  IF err # ""
           THEN /\ Respond(r, seen, FailureResponse(phase[r], err))
                /\ tokenCache' = NoCache
                /\ UNCHANGED lastFetch
           ELSE /\ tokenCache' = NewCacheEntry(resp.data, now)
                /\ lastFetch' = [req |-> r, data |-> resp.data, at |-> now,
                                 overLive |-> tokenCache.t # "null" /\ now < tokenCache.expiresAt]
                /\ pc' = [pc EXCEPT ![r] = CmpWait(phase[r])]
                /\ trace' = [trace EXCEPT ![r] = @ \o seen \o
                       <<CmpCall(phase[r], fields[r], keyed[r],
                                 Get(resp.data, "access_token").v)>>]
    /\ UNCHANGED <<now, phase, body, fields, keyed>>

\* TokenReturn that updates an existing entry field by field and leaves its
\* expiresAt as it was
TokenReturnSplitWrite(r, resp) ==
    /\ pc[r] = "TokenFetch"
    /\ LET err == TokenError(resp)
           seen == <<Answer("token", TokenResult(resp))>>
       IN  IF err # ""
           THEN /\ Respond(r, seen, FailureResponse(phase[r], err))
                /\ UNCHANGED <<tokenCache, lastFetch>>
           ELSE /\ tokenCache' =
                      IF tokenCache.t = "null" THEN NewCacheEntry(resp.data, now)
                      ELSE [tokenCache EXCEPT !.accessToken = Get(resp.data, "access_token").v]
                /\ lastFetch' = [req |-> r, data |-> resp.data, at |-> now,
                                 overLive |-> tokenCache.t # "null" /\ now < tokenCache.expiresAt]
                /\ pc' = [pc EXCEPT ![r] = CmpWait(phase[r])]
                /\ trace' = [trace EXCEPT ![r] = @ \o seen \o
                       <<CmpCall(phase[r], fields[r], keyed[r],
                                 Get(resp.data, "access_token").v)>>]
    /\ UNCHANGED <<now, phase, body, fields, keyed>>

\* getAccessToken after its fetch: throw on a failed or invalid response,
\* else overwrite the cache and return the token, with which the CMP call
\* of the step in progress is sent
TokenReturn(r, resp) ==
    /\ pc[r] = "TokenFetch"
    /\ LET err == TokenError(resp)
           seen == <<Answer("token", TokenResult(resp))>>
       IN  IF err # ""
           THEN /\ Respond(r, seen, FailureResponse(phase[r], err))
                /\ UNCHANGED <<tokenCache, lastFetch>>
           ELSE /\ tokenCache' = NewCacheEntry(resp.data, now)
                /\ lastFetch' = [req |-> r, data |-> resp.data, at |-> now,
                                 overLive |-> tokenCache.t # "null" /\ now < tokenCache.expiresAt]
                /\ pc' = [pc EXCEPT ![r] = CmpWait(phase[r])]
                /\ trace' = [trace EXCEPT ![r] = @ \o seen \o
                       <<CmpCall(phase[r], fields[r], keyed[r],
                                 Get(resp.data, "access_token").v)>>]
    /\ UNCHANGED <<now, phase, body, fields, keyed>>

\* AckReturn without the `!response.ok` test: only a rejected fetch fails
AckReturnIgnoreStatus(r, res) ==
    /\ pc[r] = "AckFetch"
    /\ LET seen == <<Answer("ack", res)>>
           kp == generatePreviewUrls(fields[r].contentId)
       IN  IF res = "network_error"
           THEN /\ Respond(r, seen, AcknowledgeFailedResponse("fetch failed"))
                /\ UNCHANGED <<phase, keyed>>
           ELSE /\ keyed' = [keyed EXCEPT ![r] = kp]
                /\ StartCmpStep(r, "complete", fields[r], kp, seen)
    /\ UNCHANGED <<tokenCache, now, body, fields, lastFetch>>

\* AckReturn whose catch block does not return: the handler goes on to the
\* completion step after a failed acknowledge
AckReturnFallThrough(r, res) ==
    /\ pc[r] = "AckFetch"
    /\ LET seen == <<Answer("ack", res)>>
           kp == generatePreviewUrls(fields[r].contentId)
       IN  /\ keyed' = [keyed EXCEPT ![r] = kp]
           /\ StartCmpStep(r, "complete", fields[r], kp, seen)
    /\ UNCHANGED <<tokenCache, now, body, fields, lastFetch>>

\* AckReturn that builds the preview URLs from the previewId
AckReturnPreviewIdUrls(r, res) ==
    /\ pc[r] = "AckFetch"
    /\ LET seen == <<Answer("ack", res)>>
           kp == generatePreviewUrls(fields[r].previewId)
       IN  IF res # "ok"
           THEN /\ Respond(r, seen, AcknowledgeFailedResponse(
                        IF res = "http_error" THEN "Failed to acknowledge preview"
                        ELSE "fetch failed"))
                /\ UNCHANGED <<phase, keyed>>
           ELSE /\ keyed' = [keyed EXCEPT ![r] = kp]
                /\ StartCmpStep(r, "complete", fields[r], kp, seen)
    /\ UNCHANGED <<tokenCache, now, body, fields, lastFetch>>

\* acknowledgePreview after its fetch; on success POST goes on to
\* generatePreviewUrls and submitPreviewCompletion
AckReturn(r, res) ==
    /\ pc[r] = "AckFetch"
    /\ LET seen == <<Answer("ack", res)>>
           kp == generatePreviewUrls(fields[r].contentId)
       IN  IF res # "ok"
           THEN /\ Respond(r, seen, AcknowledgeFailedResponse(
                        IF res = "http_error" THEN "Failed to acknowledge preview"
                        ELSE "fetch failed"))
                /\ UNCHANGED <<phase, keyed>>
           ELSE /\ keyed' = [keyed EXCEPT ![r] = kp]
                /\ StartCmpStep(r, "complete", fields[r], kp, seen)
    /\ UNCHANGED <<tokenCache, now, body, fields, lastFetch>>

\* CplReturn without the `!response.ok` test: only a rejected fetch fails
CplReturnIgnoreStatus(r, res) ==
    /\ pc[r] = "CplFetch"
    /\ LET seen == <<Answer("complete", res)>>
       IN  IF res = "network_error"
           THEN Respond(r, seen, CompletionFailedResponse("fetch failed"))
           ELSE Respond(r, seen, SuccessResponse(fields[r], keyed[r]))
    /\ UNCHANGED <<tokenCache, now, phase, body, fields, keyed, lastFetch>>

\* CplReturn that sends the completion call a second time after a failure
CplReturnRetry(r, res) ==
    /\ pc[r] = "CplFetch"
    /\ LET seen == <<Answer("complete", res)>>
       IN  IF res # "ok" /\ Count(trace[r], "complete") < 2
           THEN /\ pc' = pc
                /\ trace' = [trace EXCEPT ![r] = @ \o seen \o
                       <<CmpCall("complete", fields[r], keyed[r], "retry")>>]
           ELSE IF res # "ok"
           THEN Respond(r, seen, CompletionFailedResponse("fetch failed"))
           ELSE Respond(r, seen, SuccessResponse(fields[r], keyed[r]))
    /\ UNCHANGED <<tokenCache, now, phase, body, fields, keyed, lastFetch>>

\* submitPreviewCompletion after its fetch; on success POST returns 200
CplReturn(r, res) ==
    /\ pc[r] = "CplFetch"
    /\ LET seen == <<Answer("complete", res)>>
       IN  IF res # "ok"
           THEN Respond(r, seen, CompletionFailedResponse(
                        IF res = "http_error" THEN "Failed to submit preview completion"
                        ELSE "fetch failed"))
           ELSE Respond(r, seen, SuccessResponse(fields[r], keyed[r]))
    /\ UNCHANGED <<tokenCache, now, phase, body, fields, keyed, lastFetch>>

(***************************************************************************)
(* The handler of src/pages/cmp-preview-webhook.ts: the same token cache   *)
(* code and acknowledge step in a module of its own, with the body decoded *)
(* into `body` (not `body.data`) and no completion step.                   *)
(***************************************************************************)
\* data?.assets?.structured_contents[0] below `body?.`
PagesFirstContent == <<Opt("data")>> \o FirstContent

\* `body = JSON.parse(rawBody)` and the console.log of
\* body?.data?.assets?.structured_contents[0] inside the same try
PagesDecodeBody(b) ==
    IF b.raw = "empty" THEN Null
    ELSE IF b.raw = "malformed" THEN Thrown
    ELSE IF EvalChain(b.value, PagesFirstContent).t = "throw" THEN Thrown
    ELSE b.value

PagesExtractFields(b) ==
    [ contentId   |-> EvalChain(b, PagesFirstContent \o <<Opt("id")>>),
      versionId   |-> EvalChain(b, PagesFirstContent \o <<Opt("version_id")>>),
      previewId   |-> EvalChain(b, <<Opt("data"), Opt("preview_id")>>),
      updatedBy   |-> EvalChain(b, PagesFirstContent \o <<Opt("content_body"), Opt("updated_by")>>),
      contentHash |-> EvalChain(b, PagesFirstContent
                          \o <<Opt("content_body"), Opt("fields_version"), Opt("content_hash")>>) ]

PagesSuccessResponse(f) ==
    [kind |-> "response", status |-> 200, error |-> "",
     message |-> "Webhook received and preview acknowledged successfully",
     acknowledged |-> TRUE,
     contentId |-> f.contentId.v, versionId |-> f.versionId.v, previewId |-> f.previewId.v]

PagesHandleBody(r) ==
    /\ pc[r] = "Received"
    /\ LET b == PagesDecodeBody(body[r])
           f == PagesExtractFields(b)
       IN  IF body[r] = UnreadableBody
           THEN /\ Respond(r, <<>>, ProcessFailedResponse("body unreadable"))
                /\ UNCHANGED <<phase, fields>>
           ELSE IF b.t = "throw"
           THEN Respond(r, <<>>, InvalidJsonResponse) /\ UNCHANGED <<phase, fields>>
           ELSE IF ExtractThrew(f)
           THEN /\ Respond(r, <<>>, ProcessFailedResponse("TypeError"))
                /\ UNCHANGED <<phase, fields>>
           ELSE IF MissingRequired(f)
           THEN Respond(r, <<>>, MissingFieldsResponse) /\ UNCHANGED <<phase, fields>>
           ELSE /\ fields' = [fields EXCEPT ![r] = f]
                /\ StartCmpStep(r, "ack", f, <<>>, <<>>)
    /\ UNCHANGED <<tokenCache, now, body, keyed, lastFetch>>

\* acknowledgePreview after its fetch; on success POST returns 200
PagesAckReturn(r, res) ==
    /\ pc[r] = "AckFetch"
    /\ LET seen == <<Answer("ack", res)>>
       IN  IF res # "ok"
           THEN Respond(r, seen, AcknowledgeFailedResponse(
                        IF res = "http_error" THEN "Failed to acknowledge preview"
                        ELSE "fetch failed"))
           ELSE Respond(r, seen, PagesSuccessResponse(fields[r]))
    /\ UNCHANGED <<tokenCache, now, phase, body, fields, keyed, lastFetch>>

\* time passes
Tick ==
    /\ now < MaxTicks * TickMs
    /\ now' = now + TickMs
    /\ UNCHANGED <<tokenCache, pc, phase, body, fields, keyed, trace, lastFetch>>

Next ==
    \/ \E r \in Reqs : \E b \in Bodies(r) : Receive(r, b)
    \/ \E r \in Reqs : HandleBody(r)
    \/ \E r \in Reqs, resp \in TokenResponses : TokenReturn(r, resp)
    \/ \E r \in Reqs, res \in CmpResponses : AckReturn(r, res)
    \/ \E r \in Reqs, res \in CmpResponses : CplReturn(r, res)
    \/ Tick

Spec == Init /\ [][Next]_vars

\* the read of the body resolves and every outbound call returns, with
\* success or with failure: a handler suspended at an await is resumed
Fairness ==
    \A r \in Reqs :
        /\ WF_vars(HandleBody(r))
        /\ WF_vars(\E resp \in TokenResponses : TokenReturn(r, resp))
        /\ WF_vars(\E res \in CmpResponses : AckReturn(r, res))
        /\ WF_vars(\E res \in CmpResponses : CplReturn(r, res))

SpecFair == Init /\ [][Next]_vars /\ Fairness

\* the requests served by the handler of src/pages/cmp-preview-webhook.ts
NextPages ==
    \/ \E r \in Reqs : \E b \in Bodies(r) : Receive(r, b)
    \/ \E r \in Reqs : PagesHandleBody(r)
    \/ \E r \in Reqs, resp \in TokenResponses : TokenReturn(r, resp)
    \/ \E r \in Reqs, res \in CmpResponses : PagesAckReturn(r, res)
    \/ Tick

SpecPages == Init /\ [][NextPages]_vars

(***************************************************************************)
(* Reading a request's trace.                                              *)
(***************************************************************************)
Last(tr) == tr[Len(tr)]

Responded(r) == pc[r] = "Responded"

\* every outbound call of the trace was answered with success
AllAnswersOk(tr) == \A i \in Kinds(tr, "answer") : tr[i].result = "ok"

\* the step enters getAccessToken for request r
EntersGetToken(r) ==
    Count(trace'[r], "getAccessToken") = Count(trace[r], "getAccessToken") + 1

\* the step is the one in which request r's token request is answered with
\* a response getAccessToken accepts
TokenAccepted(r) ==
    /\ pc[r] = "TokenFetch"
    /\ Len(trace'[r]) > Len(trace[r])
    /\ trace'[r][Len(trace[r]) + 1] = Answer("token", "ok")

\* a cache entry exists and the clock is before its expiresAt
CacheLive == tokenCache.t # "null" /\ now < tokenCache.expiresAt

\* position i of request r's trace is a getAccessToken call served from the
\* cache: the CMP call follows it with no token request in between
IsHit(r, i) ==
    /\ i \in DOMAIN trace[r] /\ i + 1 \in DOMAIN trace[r]
    /\ trace[r][i].kind = "getAccessToken"
    /\ trace[r][i + 1].kind \in {"ack", "complete"}

(***************************************************************************)
(* C1.  With a payload that has the five required fields and with every    *)
(* upstream call succeeding, a request that has been answered saw exactly  *)
(* one acknowledge call, then exactly one completion call, then 200.       *)
(***************************************************************************)
C1_AckThenCompleteThen200 ==
    \A r \in Reqs :
        (Responded(r) /\ body[r] = ValidBody(r) /\ AllAnswersOk(trace[r])) =>
            /\ Count(trace[r], "ack") = 1
            /\ Count(trace[r], "complete") = 1
            /\ \A i \in Kinds(trace[r], "ack") : \A j \in Kinds(trace[r], "complete") : i < j
            /\ Last(trace[r]).kind = "response"
            /\ Last(trace[r]).status = 200

(***************************************************************************)
(* C2.  A parseable body that lacks one of the five required fields is     *)
(* answered 400 "Missing required fields" and nothing else happens for it. *)
(***************************************************************************)
C2_MissingFieldIs400 ==
    \A r \in Reqs :
        (Responded(r) /\ body[r].raw = "json" /\ body[r] # ValidBody(r)) =>
            trace[r] = <<MissingFieldsResponse>>

(***************************************************************************)
(* C3.  A non-empty body that is no JSON is answered 400 "Invalid JSON     *)
(* payload" as soon as it is handled: no field is extracted and no         *)
(* outbound call is made for it.                                           *)
(***************************************************************************)
C3_MalformedIs400 ==
    \A r \in Reqs :
        (body[r].raw = "malformed" /\ pc[r] # "Received") =>
            /\ Responded(r)
            /\ trace[r] = <<InvalidJsonResponse>>
            /\ fields[r] = NoFields

C3_Witness == \E r \in Reqs : body[r].raw = "malformed" /\ Responded(r)

(***************************************************************************)
(* C4.  A non-2xx answer to the acknowledge call ends the request with 500 *)
(* "Failed to acknowledge preview" and without a completion call.          *)
(***************************************************************************)
C4_AckFailureIs500 ==
    \A r \in Reqs : \A i \in DOMAIN trace[r] :
        trace[r][i] = Answer("ack", "http_error") =>
            /\ Responded(r)
            /\ Len(trace[r]) = i + 1
            /\ Last(trace[r]).kind = "response"
            /\ Last(trace[r]).status = 500
            /\ Last(trace[r]).error = "Failed to acknowledge preview"
            /\ Count(trace[r], "complete") = 0

C4_Witness ==
    \E r \in Reqs : \E i \in DOMAIN trace[r] :
        trace[r][i] = Answer("ack", "http_error") /\ Responded(r)

(***************************************************************************)
(* C5.  A non-2xx answer to the completion call, which follows a           *)
(* successful acknowledge, ends the request with 500 "Failed to submit     *)
(* preview completion"; the acknowledge call was sent once and no call     *)
(* follows the failed completion.                                          *)
(***************************************************************************)
C5_CompletionFailureIs500 ==
    \A r \in Reqs : \A i \in DOMAIN trace[r] :
        trace[r][i] = Answer("complete", "http_error") =>
            /\ \E j \in 1..(i - 1) : trace[r][j] = Answer("ack", "ok")
            /\ Responded(r)
            /\ Len(trace[r]) = i + 1
            /\ Last(trace[r]).kind = "response"
            /\ Last(trace[r]).status = 500
            /\ Last(trace[r]).error = "Failed to submit preview completion"
            /\ Count(trace[r], "ack") = 1
            /\ Count(trace[r], "complete") = 1

C5_Witness ==
    \E r \in Reqs : \E i \in DOMAIN trace[r] :
        trace[r][i] = Answer("complete", "http_error") /\ Responded(r)

(***************************************************************************)
(* C6.  Whatever the other requests do, a completion call of a request     *)
(* comes after that request's acknowledge call was answered with success.  *)
(***************************************************************************)
C6_AckBeforeComplete ==
    \A r \in Reqs : \A i \in Kinds(trace[r], "complete") :
        \E j \in 1..(i - 1) :
            /\ trace[r][j] = Answer("ack", "ok")
            /\ \E k \in 1..(j - 1) :
                /\ trace[r][k].kind = "ack"
                /\ trace[r][k].previewId = trace[r][i].previewId
                /\ trace[r][k].contentId = trace[r][i].contentId
                /\ trace[r][k].versionId = trace[r][i].versionId

\* two requests in flight at once, one of which has sent its completion call
C6_Witness ==
    \E r \in Reqs : \E o \in Reqs \ {r} :
        /\ Count(trace[r], "complete") = 1
        /\ pc[o] \in {"TokenFetch", "AckFetch", "CplFetch"}
        /\ pc[r] = "CplFetch"

(***************************************************************************)
(* C7.  A getAccessToken call made while the cache holds an entry with     *)
(* now < expiresAt sends no token request, leaves the cache alone and      *)
(* returns the cached token, which the CMP call then carries.              *)
(***************************************************************************)
C7_CacheHitNoFetch ==
    [][\A r \in Reqs :
          (EntersGetToken(r) /\ CacheLive) =>
              /\ Count(trace'[r], "token") = Count(trace[r], "token")
              /\ Last(trace'[r]).kind \in {"ack", "complete"}
              /\ Last(trace'[r]).token = tokenCache.accessToken
              /\ tokenCache' = tokenCache]_vars

C7_Witness == \E r \in Reqs : \E i \in DOMAIN trace[r] : IsHit(r, i)

(***************************************************************************)
(* C8.  A getAccessToken call made with no entry, or with one that is not  *)
(* in the future, sends exactly one token request; when the answer is      *)
(* accepted the cache becomes the returned access_token with               *)
(* expiresAt = now + (expires_in - 300) * 1000, now read at the write.     *)
(***************************************************************************)
C8_MissFetchesAndCaches ==
    [][\A r \in Reqs :
          /\ (EntersGetToken(r) /\ ~CacheLive) =>
                /\ Count(trace'[r], "token") = Count(trace[r], "token") + 1
                /\ pc'[r] = "TokenFetch"
                /\ tokenCache' = tokenCache
          /\ TokenAccepted(r) =>
                /\ Count(trace'[r], "token") = Count(trace[r], "token")
                /\ lastFetch'.req = r
                /\ tokenCache' =
                      [t |-> "object",
                       accessToken |-> lastFetch'.data.f.access_token.v,
                       expiresAt |-> now + (lastFetch'.data.f.expires_in.v - 300) * 1000]]_vars

\* an accepted token response was written after the clock had advanced,
\* over an entry that had expired
C8_Witness ==
    /\ lastFetch.req # 0
    /\ lastFetch.at > 0
    /\ lastFetch.data.f.expires_in.v > 300
    /\ tokenCache.expiresAt = lastFetch.at + (lastFetch.data.f.expires_in.v - 300) * 1000
    /\ \E r \in Reqs : Count(trace[r], "token") = 2

(***************************************************************************)
(* C9.  A request that finds no live entry sends a token request even      *)
(* while another request's token request is in flight; each accepted       *)
(* answer overwrites the cache, whatever the cache holds by then; and a    *)
(* getAccessToken call served from the cache returns the token of the      *)
(* last answer accepted.                                                   *)
(***************************************************************************)
C9_LastWriterWins ==
    [][\A r \in Reqs :
          /\ (EntersGetToken(r) /\ ~CacheLive /\ \E o \in Reqs \ {r} : pc[o] = "TokenFetch") =>
                /\ Last(trace'[r]) = TokenCall
                /\ pc'[r] = "TokenFetch"
          /\ TokenAccepted(r) =>
                /\ tokenCache'.t = "object"
                /\ tokenCache'.accessToken = Last(trace'[r]).token
                /\ lastFetch'.req = r
          /\ (EntersGetToken(r) /\ CacheLive) =>
                /\ lastFetch.req # 0
                /\ Last(trace'[r]).token = lastFetch.data.f.access_token.v]_vars

\* the last writer overwrote an entry that was still live (so its token
\* request was in flight together with the other writer's), and the other
\* writer, which had fetched a different token, was later served the last
\* writer's token from the cache
C9_Witness ==
    /\ lastFetch.req # 0
    /\ lastFetch.overLive
    /\ \E r \in Reqs \ {lastFetch.req} :
          /\ Count(trace[r], "token") = 1
          /\ \E i \in DOMAIN trace[r] :
                /\ trace[r][i] = Answer("token", "ok")
                /\ trace[r][i + 1].token # lastFetch.data.f.access_token.v
          /\ \E i \in DOMAIN trace[r] :
                /\ IsHit(r, i)
                /\ trace[r][i + 1].token = lastFetch.data.f.access_token.v

(***************************************************************************)
(* C10.  Whatever the outcomes, a request sees at most one acknowledge     *)
(* call and at most one completion call; it is answered exactly when it    *)
(* is done, once, and the response is the last thing that happens for it.  *)
(***************************************************************************)
C10_OneShot ==
    \A r \in Reqs :
        /\ Count(trace[r], "ack") <= 1
        /\ Count(trace[r], "complete") <= 1
        /\ Count(trace[r], "response") <= 1
        /\ Responded(r) <=> Count(trace[r], "response") = 1
        /\ Responded(r) => Last(trace[r]).kind = "response"

\* requests answered after every kind of outcome
C10_Witness ==
    /\ \E r \in Reqs : Responded(r) /\ Last(trace[r]).status = 200
    /\ \E r \in Reqs : Responded(r) /\ Last(trace[r]).status = 500
                          /\ Count(trace[r], "complete") = 1


\* the answers to a token request on which the authorization server was
\* unreachable, answered non-2xx, or answered 2xx with a payload that lacks
\* access_token or expires_in
TokenFetchFailures == {"network_error", "http_error", "no_access_token", "no_expires_in"}

IsTokenAnswer(e) == e.kind = "answer" /\ e.to = "token"

(***************************************************************************)
(* C11.  When the token request is not answered (network error), is        *)
(* answered non-2xx, or is answered 2xx without access_token or without    *)
(* expires_in, getAccessToken throws: the request ends there with a 500    *)
(* response that carries the error's message, and no call with a bearer    *)
(* token follows.                                                          *)
(***************************************************************************)
C11_TokenFailureThrows ==
    \A r \in Reqs : \A i \in DOMAIN trace[r] :
        (IsTokenAnswer(trace[r][i]) /\ trace[r][i].result \in TokenFetchFailures) =>
            /\ Responded(r)
            /\ Len(trace[r]) = i + 1
            /\ Last(trace[r]).kind = "response"
            /\ Last(trace[r]).status = 500
            /\ Last(trace[r]).details # ""

\* one request ended on a non-2xx token answer, another on a 2xx payload
\* without expires_in
C11_Witness ==
    /\ \E r \in Reqs : \E i \in DOMAIN trace[r] :
          trace[r][i] = Answer("token", "http_error") /\ Responded(r)
    /\ \E r \in Reqs : \E i \in DOMAIN trace[r] :
          trace[r][i] = Answer("token", "no_expires_in") /\ Responded(r)


\* the bodies on which POST raises an exception outside its JSON-parse,
\* acknowledge and completion handlers: the read of the body rejects, or
\* index 0 of an undefined structured_contents is read
UncaughtBodies == NoStructuredContentsBodies \cup {UnreadableBody}

\* where a handler can be: not yet invoked, suspended at an await, returned
HandlerPositions == {"Idle", "Received", "TokenFetch", "AckFetch", "CplFetch", "Responded"}

(***************************************************************************)
(* C12.  An exception raised outside the JSON-parse, acknowledge and       *)
(* completion handlers reaches the top-level catch: the request is         *)
(* answered 500 "Failed to process webhook" with the error's message as    *)
(* details.  A handler is only ever waiting or returned, and a returned    *)
(* handler has produced a response.                                        *)
(***************************************************************************)
C12_TopLevelCatch ==
    \A r \in Reqs :
        /\ pc[r] \in HandlerPositions
        /\ Responded(r) => Last(trace[r]).kind = "response"
        /\ (body[r] \in UncaughtBodies /\ pc[r] # "Received") =>
              /\ Responded(r)
              /\ Len(trace[r]) = 1
              /\ trace[r][1].kind = "response"
              /\ trace[r][1].status = 500
              /\ trace[r][1].error = "Failed to process webhook"
              /\ trace[r][1].details # ""

\* a request whose body could not be read and one whose payload has assets
\* without structured_contents have both been answered
C12_Witness ==
    /\ \E r \in Reqs : body[r] = UnreadableBody /\ Responded(r)
    /\ \E r \in Reqs : body[r] \in NoStructuredContentsBodies /\ Responded(r)


(***************************************************************************)
(* C13.  A 2xx token response with an access_token and an expires_in of    *)
(* at most 300, zero and negative values included, is accepted: the call   *)
(* of the step goes out with its token, and the entry written from it has  *)
(* an expiresAt that is not after the clock of the write, so that no later *)
(* getAccessToken call finds it live.                                      *)
(***************************************************************************)
C13_ShortLivedTokenCached ==
    /\ \A r \in Reqs : \A i \in DOMAIN trace[r] :
          trace[r][i] = Answer("token", "expires_in_zero") =>
              /\ i + 1 \in DOMAIN trace[r]
              /\ trace[r][i + 1].kind \in {"ack", "complete"}
    /\ (lastFetch.req # 0 /\ lastFetch.data.f.expires_in.v <= 300) =>
          /\ tokenCache.accessToken = lastFetch.data.f.access_token.v
          /\ tokenCache.expiresAt <= lastFetch.at
          /\ ~CacheLive


\* the ids of request r's payload, read off the payload itself
OwnContentId(r) == body[r].value.f.data.f.assets.f.structured_contents.e[1].f.id.v
OwnVersionId(r) == body[r].value.f.data.f.assets.f.structured_contents.e[1].f.version_id.v
OwnPreviewId(r) == body[r].value.f.data.f.preview_id.v

Channels == {"default", "mobile", "desktop", "tablet", "signage"}

C15_EveryRequestAnswered ==
    \A r \in Reqs : (pc[r] = "Received") ~> Responded(r)

\* a request answered after both of its CMP steps fetched a token while
\* another request was answered too
C15_Witness ==
    \E r \in Reqs :
        /\ Responded(r)
        /\ Count(trace[r], "token") = 2
        /\ \E o \in Reqs \ {r} : Responded(o) /\ Count(trace[o], "token") >= 1


\* request r is the only one the module has ever handled
Alone(r) == \A o \in Reqs \ {r} : pc[o] = "Idle"

(***************************************************************************)
(* C16.  A request handled alone (so that the cache was empty when it      *)
(* began), whose acknowledge step fetched a token with expires_in > 300,   *)
(* and whose acknowledge call returns with success while the clock is      *)
(* before the expiresAt of that token, sends its completion call with that *)
(* token without a second token request; once the completion call is out,  *)
(* no token request follows.  One token request in total.                  *)
(***************************************************************************)
C16_OneTokenRequestAlone ==
    [][\A r \in Reqs :
          /\ ( /\ Alone(r)
               /\ pc[r] = "AckFetch"
               /\ phase'[r] = "complete"
               /\ lastFetch.req = r
               /\ lastFetch.data.f.expires_in.v > 300
               /\ now < lastFetch.at + (lastFetch.data.f.expires_in.v - 300) * 1000 ) =>
                /\ Count(trace'[r], "token") = 1
                /\ pc'[r] = "CplFetch"
                /\ Last(trace'[r]).kind = "complete"
                /\ Last(trace'[r]).token = lastFetch.data.f.access_token.v
          /\ pc[r] = "CplFetch" =>
                Count(trace'[r], "token") = Count(trace[r], "token")]_vars

\* a request handled alone was answered 200 after one token request, its
\* completion step served from the cache
C16_Witness ==
    \E r \in Reqs :
        /\ Alone(r)
        /\ Responded(r)
        /\ Last(trace[r]).status = 200
        /\ Count(trace[r], "token") = 1
        /\ lastFetch.req = r
        /\ lastFetch.data.f.expires_in.v > 300
        /\ \E i \in DOMAIN trace[r] : IsHit(r, i) /\ trace[r][i + 1].kind = "complete"


\* the events of a trace that carry the ids of a request: the two CMP calls
\* and the 200 response
CarriesIds(e) == e.kind \in {"ack", "complete"} \/ (e.kind = "response" /\ e.status = 200)

\* the step is not one of request r's handler
NotStepOf(r) == pc'[r] = pc[r] /\ trace'[r] = trace[r]

(***************************************************************************)
(* C17.  Whatever the interleaving, the acknowledge call, the completion   *)
(* call and the 200 response of a request carry the contentId, versionId   *)
(* and previewId of that request's own payload, and a step of one          *)
(* request's handler changes nothing another request's handler holds: the  *)
(* token cache is all they share.                                          *)
(***************************************************************************)
C17_OwnIdsOnly ==
    /\ [](\A r \in Reqs : \A i \in DOMAIN trace[r] :
            CarriesIds(trace[r][i]) =>
                /\ trace[r][i].contentId = OwnContentId(r)
                /\ trace[r][i].versionId = OwnVersionId(r)
                /\ trace[r][i].previewId = OwnPreviewId(r))
    /\ [][\A r \in Reqs :
            NotStepOf(r) =>
                /\ body'[r] = body[r]
                /\ fields'[r] = fields[r]
                /\ keyed'[r] = keyed[r]
                /\ phase'[r] = phase[r]]_vars

\* two requests with different ids were in progress together and both were
\* answered 200
C17_Witness ==
    \E r \in Reqs : \E o \in Reqs \ {r} :
        /\ Responded(r) /\ Last(trace[r]).status = 200
        /\ Responded(o) /\ Last(trace[o]).status = 200
        /\ OwnContentId(r) # OwnContentId(o)
        /\ OwnVersionId(r) # OwnVersionId(o)
        /\ OwnPreviewId(r) # OwnPreviewId(o)
        /\ lastFetch.overLive


\* position i of the trace is a token answer on which getAccessToken threw:
\* the response follows it at once
TokenFailedAt(tr, i) ==
    /\ IsTokenAnswer(tr[i])
    /\ i + 1 \in DOMAIN tr
    /\ tr[i + 1].kind = "response"

(***************************************************************************)
(* C18.  When getAccessToken throws in the acknowledge step, the request   *)
(* is answered 500 "Failed to acknowledge preview" and neither an          *)
(* acknowledge nor a completion call was sent; when it throws in the       *)
(* completion step, after a successful acknowledge, the request is         *)
(* answered 500 "Failed to submit preview completion" and no completion    *)
(* call was sent.                                                          *)
(***************************************************************************)
C18_TokenFailureByStep ==
    \A r \in Reqs : \A i \in DOMAIN trace[r] :
        TokenFailedAt(trace[r], i) =>
            /\ Responded(r)
            /\ Len(trace[r]) = i + 1
            /\ trace[r][i + 1].status = 500
            /\ Count(trace[r], "complete") = 0
            /\ IF \E j \in 1..(i - 1) : trace[r][j] = Answer("ack", "ok")
               THEN /\ trace[r][i + 1].error = "Failed to submit preview completion"
                    /\ Count(trace[r], "ack") = 1
               ELSE /\ trace[r][i + 1].error = "Failed to acknowledge preview"
                    /\ Count(trace[r], "ack") = 0

\* getAccessToken threw in the acknowledge step of one request and in the
\* completion step of another
C18_Witness ==
    /\ \E r \in Reqs : \E i \in DOMAIN trace[r] :
          TokenFailedAt(trace[r], i) /\ Count(trace[r], "ack") = 0
    /\ \E r \in Reqs : \E i \in DOMAIN trace[r] :
          TokenFailedAt(trace[r], i) /\ Count(trace[r], "ack") = 1


(***************************************************************************)
(* C19.  A step changes the token cache only if it is the step in which a  *)
(* token request is answered 2xx with an access_token and a non-zero       *)
(* expires_in.  Every other step leaves the entry as it is: a cache hit, a *)
(* failed token request, a request rejected with 400, a failed acknowledge *)
(* or completion call.                                                     *)
(***************************************************************************)
C19_CacheFrame ==
    [][tokenCache' # tokenCache => \E r \in Reqs : TokenAccepted(r)]_vars

\* with an entry in the cache, one request was served from it and then saw
\* its acknowledge call fail, another saw its second token request fail,
\* and the entry is still the one last written
C19_Witness ==
    /\ lastFetch.req # 0
    /\ tokenCache = NewCacheEntry(lastFetch.data, lastFetch.at)
    /\ \E r \in Reqs : \E i \in DOMAIN trace[r] :
          /\ IsHit(r, i)
          /\ i + 2 \in DOMAIN trace[r]
          /\ trace[r][i + 2] = Answer("ack", "http_error")
          /\ trace[r][i + 1].token = tokenCache.accessToken
    /\ \E r \in Reqs :
          /\ lastFetch.req = r
          /\ Count(trace[r], "token") = 2
          /\ Responded(r)
          /\ TokenFailedAt(trace[r], Len(trace[r]) - 1)


(***************************************************************************)
(* C20.  In every state the token cache is empty, and then no token        *)
(* response has been accepted, or it holds the access_token of the last    *)
(* accepted token response together with the expiresAt computed from that  *)
(* same response's expires_in and the clock of its write; an entry is      *)
(* never replaced by no entry.                                             *)
(***************************************************************************)
C20_CacheEntryWhole ==
    /\ [](IF tokenCache = NoCache
          THEN lastFetch = NoFetch
          ELSE /\ lastFetch.req # 0
               /\ tokenCache.accessToken = lastFetch.data.f.access_token.v
               /\ tokenCache.expiresAt =
                      lastFetch.at + (lastFetch.data.f.expires_in.v - 300) * 1000)
    /\ [][tokenCache # NoCache => tokenCache' # NoCache]_vars

\* the cache holds the entry of a response accepted after the clock had
\* advanced, and another request had before that fetched a different token
C20_Witness ==
    /\ lastFetch.req # 0
    /\ lastFetch.at > 0
    /\ tokenCache = NewCacheEntry(lastFetch.data, lastFetch.at)
    /\ \E r \in Reqs \ {lastFetch.req} : \E i \in DOMAIN trace[r] :
          /\ trace[r][i] = Answer("token", "ok")
          /\ trace[r][i + 1].token # lastFetch.data.f.access_token.v


(***************************************************************************)
(* C21.  A request with an empty body is not JSON-decoded: data stays      *)
(* null, every extraction gives undefined, and the request is answered 400 *)
(* "Missing required fields" (not "Invalid JSON payload") with no          *)
(* outbound call.                                                          *)
(***************************************************************************)
C21_EmptyBodyIsMissingFields ==
    \A r \in Reqs :
        (body[r].raw = "empty" /\ pc[r] # "Received") =>
            /\ Responded(r)
            /\ trace[r] = <<MissingFieldsResponse>>
            /\ trace[r][1].status = 400
            /\ trace[r][1] # InvalidJsonResponse
            /\ fields[r] = NoFields

\* a request with an empty body has been answered while another request
\* had outbound calls of its own
C21_Witness ==
    \E r \in Reqs :
        /\ body[r].raw = "empty"
        /\ Responded(r)
        /\ \E o \in Reqs \ {r} : Count(trace[o], "ack") = 1

====
